---------------------------- MODULE Spec2Model ----------------------------
(***************************************************************************)
(* NeuronIP Python SDK (sdk/python/neuronip/client.py) and the development *)
(* API-key script (scripts/create-test-api-key.py).                        *)
(*                                                                         *)
(* Three programs are modelled, each with its own specification:           *)
(*   SpecUrl   two clients built from the same base URL, one of them with  *)
(*             extra trailing slashes, each dispatching requests;          *)
(*   Spec      one client and every method of NeuronIPClient;              *)
(*   SpecProv  repeated runs of create-test-api-key.py against one store.  *)
(*                                                                         *)
(* A URL or path is a sequence of pieces: the piece "/" is the slash       *)
(* character, any other piece stands for a run of non-slash characters.    *)
(* Optional[T] is a sequence of length at most one: None is <<>>.          *)
(* A dict is a function from its keys to its values.                       *)
(***************************************************************************)
EXTENDS Integers, Sequences, FiniteSets, TLC

VARIABLES
    twin,       \* SpecUrl: client id -> NeuronIPClient object
    ctor,       \* SpecUrl: client id -> the base_url argument it was built with
    sent,       \* SpecUrl: client id -> last dispatched [path, url] (or none)
    given,      \* Spec: the arguments the client was constructed with
    client,     \* Spec: the NeuronIPClient object (base_url, api_key, session.headers)
    last,       \* Spec: the last completed call (arguments, outbound request, outcome)
    calls,      \* Spec: number of calls made on the client so far
    store,      \* SpecProv: rows of neuronip.api_keys
    generated,  \* SpecProv: every key generate_api_key has returned
    earlier,    \* SpecProv: keys stored by successful runs before the most recent one
    latest,     \* SpecProv: key stored by the most recent successful run (Optional)
    runs        \* SpecProv: number of runs of main() so far

urlVars == <<twin, ctor, sent>>
clientVars == <<given, client, last, calls>>
provVars == <<store, generated, earlier, latest, runs>>
vars == <<twin, ctor, sent, given, client, last, calls, store, generated, earlier, latest, runs>>

None == <<>>
Some(x) == <<x>>

\* Python truthiness of an Optional[str] / Optional[dict]: None, '' and {} are falsy.
TruthyStr(o) == o # None /\ o[1] # ""
TruthyDict(o) == o # None /\ DOMAIN o[1] # {}

EmptyDict == [k \in {} |-> 0]

\* dict.update(other): other's entries override.
update(d, other) ==
    [k \in DOMAIN d \cup DOMAIN other |-> IF k \in DOMAIN other THEN other[k] ELSE d[k]]

(***************************************************************************)
(* Bounds of the model.                                                    *)
(***************************************************************************)
MaxBaseLen == 3     \* pieces in a base_url argument (SpecUrl)
MaxExtra == 2       \* extra trailing slashes given to the second client
MaxPathLen == 3     \* pieces in a path (SpecUrl)
MaxCalls == 2       \* calls made on the client (Spec)
MaxRuns == 3        \* runs of the provisioning script (SpecProv)
HexChars == 2       \* hex characters of a modelled token (32 in the script)

RECURSIVE SeqsUpTo(_, _)
SeqsUpTo(S, n) ==
    IF n = 0 THEN {<<>>}
    ELSE LET shorter == SeqsUpTo(S, n - 1)
         IN  shorter \cup {Append(s, x) : s \in shorter, x \in S}

RECURSIVE Slashes(_)
Slashes(n) == IF n = 0 THEN <<>> ELSE <<"/">> \o Slashes(n - 1)

(***************************************************************************)
(* client.py line 20: str.rstrip('/') removes every trailing slash.        *)
(***************************************************************************)
rstrip_one(s) ==
    IF s # <<>> /\ s[Len(s)] = "/" THEN SubSeq(s, 1, Len(s) - 1) ELSE s

RECURSIVE rstrip(_)
rstrip(s) ==
    IF s # <<>> /\ s[Len(s)] = "/" THEN rstrip(SubSeq(s, 1, Len(s) - 1)) ELSE s

\* requests.Session(): the session's default headers.
SessionDefaultHeaders ==
    [h \in {"User-Agent", "Accept"} |->
        IF h = "User-Agent" THEN "python-requests" ELSE "*/*"]

\* client.py lines 24-28: the headers added when api_key is truthy.
AuthHeaders(api_key) ==
    [h \in {"Authorization", "Content-Type"} |->
        IF h = "Authorization" THEN "Bearer " \o api_key[1] ELSE "application/json"]

\* Mutant: the Authorization header is set whatever api_key is.
init_always_auth(base_url, api_key) ==
    [base_url |-> rstrip(base_url),
     api_key  |-> api_key,
     headers  |-> update(SessionDefaultHeaders,
                         AuthHeaders(IF api_key = None THEN Some("None") ELSE api_key))]

\* NeuronIPClient.__init__ (client.py lines 12-28).
init(base_url, api_key) ==
    [base_url |-> rstrip(base_url),
     api_key  |-> api_key,
     headers  |-> IF TruthyStr(api_key)
                  THEN update(SessionDefaultHeaders, AuthHeaders(api_key))
                  ELSE SessionDefaultHeaders]

\* client.py line 32: url = f"{self.base_url}{endpoint}".
TargetUrl(base_url, endpoint) == base_url \o endpoint

(***************************************************************************)
(* SpecUrl: client "a" is built with base b, client "b" with b followed by *)
(* one or more extra slashes; each dispatches paths that begin with '/'.   *)
(***************************************************************************)
Pieces == {"/", "x"}
\* A base_url argument: non-empty, beginning with a non-slash piece (scheme, host).
BaseUrls == {b \in SeqsUpTo(Pieces, MaxBaseLen) : b # <<>> /\ b[1] # "/"}
Paths == {p \in SeqsUpTo(Pieces, MaxPathLen) : p # <<>> /\ p[1] = "/"}
Twins == {"a", "b"}
NoSent == [path |-> <<>>, url |-> <<>>]

InitUrl ==
    /\ \E b \in BaseUrls, n \in 1..MaxExtra :
          /\ ctor = [c \in Twins |-> IF c = "a" THEN b ELSE b \o Slashes(n)]
          /\ twin = [c \in Twins |-> init(ctor[c], None)]
    /\ sent = [c \in Twins |-> NoSent]
    /\ given = <<>>
    /\ client = <<>>
    /\ last = <<>>
    /\ calls = 0
    /\ store = {}
    /\ generated = {}
    /\ earlier = {}
    /\ latest = None
    /\ runs = 0

\* _request on client c, up to the dispatch of the target URL (lines 30-33).
Dispatch(c, p) ==
    /\ sent' = [sent EXCEPT ![c] = [path |-> p, url |-> TargetUrl(twin[c].base_url, p)]]
    /\ UNCHANGED <<twin, ctor, clientVars, provVars>>

NextUrl == \E c \in Twins, p \in Paths : Dispatch(c, p)

SpecUrl == InitUrl /\ [][NextUrl]_vars


JunctionAt(base, url) ==
    /\ Len(url) > Len(base)
    /\ SubSeq(url, 1, Len(base)) = base
    /\ url[Len(base) + 1] = "/"
    /\ Len(base) > 0 => url[Len(base)] # "/"
    /\ Len(url) > Len(base) + 1 => url[Len(base) + 2] # "/"

SingleLeadingSlash(p) == p # <<>> /\ p[1] = "/" /\ (Len(p) > 1 => p[2] # "/")

BothDispatched(p) == sent["a"].path = p /\ sent["b"].path = p

\* C1 (as stated): for every base_url and every path beginning with '/', the two
\* clients dispatch the path to the same URL, and that URL has exactly one slash
\* between the normalized base and the rest of the path.
C1_AnyPath_OneSlash ==
    \A p \in Paths :
        BothDispatched(p) =>
            /\ sent["a"].url = sent["b"].url
            /\ \A c \in Twins : JunctionAt(twin[c].base_url, sent[c].url)

\* C1 (amended): for every base_url and every path beginning with '/', the two
\* clients dispatch the path to the same URL; when the path begins with exactly
\* one '/', that URL has exactly one slash between the normalized base (which
\* never ends in a slash) and the rest of the path.
C1_SameUrl_OneSlash ==
    \A p \in Paths :
        BothDispatched(p) =>
            /\ sent["a"].url = sent["b"].url
            /\ SingleLeadingSlash(p) =>
                  \A c \in Twins : JunctionAt(twin[c].base_url, sent[c].url)

\* C1 witness: base "x/" and base "x///" have both dispatched "/x".
C1_Witness ==
    /\ ctor["a"] = <<"x", "/">>
    /\ ctor["b"] = <<"x", "/", "/", "/">>
    /\ BothDispatched(<<"/", "x">>)
    /\ sent["a"].url = <<"x", "/", "x">>

(***************************************************************************)
(* create-test-api-key.py.  A key is a sequence of characters.             *)
(***************************************************************************)
TestKeyLiteral == <<"t", "e", "s", "t", "-", "k", "e", "y", "-">>
HexDigits == {"0", "f"}
Tokens == {t \in SeqsUpTo(HexDigits, HexChars) : Len(t) = HexChars}
Salts == {"salt1", "salt2"}
PrefixLen == 8
RateLimit == 10000

\* generate_api_key (lines 14-17) with token = secrets.token_hex(16).
generate_api_key(token) == TestKeyLiteral \o token

\* main line 63: key_prefix = key[:8].
key_prefix_of(key) == SubSeq(key, 1, IF Len(key) < PrefixLen THEN Len(key) ELSE PrefixLen)

\* hashlib.sha256(key).hexdigest(): a digest that determines the key.
sha256_hexdigest(key) == <<"sha256">> \o key

\* bcrypt.hashpw(password, salt): the salt is part of the hash.
bcrypt_hashpw(password, salt) == [salt |-> salt, digest |-> password]

\* hash_api_key (lines 19-27) with salt = bcrypt.gensalt().
hash_api_key(key, salt) == bcrypt_hashpw(sha256_hexdigest(key), salt)

\* A key matches a stored hash when re-hashing it with the hash's salt gives the hash.
Matches(key, key_hash) == bcrypt_hashpw(sha256_hexdigest(key), key_hash.salt) = key_hash

\* Mutant: a plain INSERT, without the ON CONFLICT clause.
insert_only(rows, key_prefix, bcrypt_hash) ==
    rows \cup {[key_hash |-> bcrypt_hash, key_prefix |-> key_prefix,
                name |-> "Development Test Key", rate_limit |-> RateLimit]}

\* The statement of create_api_key_in_db (lines 31-36): INSERT ... ON CONFLICT
\* (key_prefix) DO UPDATE SET key_hash, name, rate_limit.
upsert(rows, key_prefix, bcrypt_hash) ==
    IF \E r \in rows : r.key_prefix = key_prefix
    THEN {IF r.key_prefix = key_prefix
          THEN [r EXCEPT !.key_hash = bcrypt_hash,
                         !.name = "Development Test Key",
                         !.rate_limit = RateLimit]
          ELSE r : r \in rows}
    ELSE rows \cup {[key_hash |-> bcrypt_hash, key_prefix |-> key_prefix,
                     name |-> "Development Test Key", rate_limit |-> RateLimit]}

\* A row of another key, present before the script is first run.
OtherRow ==
    [key_hash |-> bcrypt_hashpw(sha256_hexdigest(<<"p", "r", "o", "d", "-", "k", "e", "y", "-", "1">>), "salt1"),
     key_prefix |-> <<"p", "r", "o", "d", "-", "k", "e", "y">>,
     name |-> "Production Key", rate_limit |-> 100]

InitProv ==
    /\ store \in {{}, {OtherRow}}
    /\ generated = {}
    /\ earlier = {}
    /\ latest = None
    /\ runs = 0
    /\ twin = <<>>
    /\ ctor = <<>>
    /\ sent = <<>>
    /\ given = <<>>
    /\ client = <<>>
    /\ last = <<>>
    /\ calls = 0

\* main (lines 49-89): token is what secrets.token_hex returns (128 random bits:
\* never a token drawn before), salt what bcrypt.gensalt returns, returncode the
\* exit status of psql in create_api_key_in_db (lines 38-47).
main(token, salt, returncode) ==
    LET key == generate_api_key(token)
        key_prefix == key_prefix_of(key)
        bcrypt_hash == hash_api_key(key, salt)
    IN  /\ runs < MaxRuns
        /\ key \notin generated
        /\ runs' = runs + 1
        /\ generated' = generated \cup {key}
        /\ IF returncode = 0
           THEN /\ store' = upsert(store, key_prefix, bcrypt_hash)
                /\ earlier' = earlier \cup {latest[i] : i \in DOMAIN latest}
                /\ latest' = Some(key)
           ELSE UNCHANGED <<store, earlier, latest>>
        /\ UNCHANGED <<urlVars, clientVars>>

NextProv == \E token \in Tokens, salt \in Salts, returncode \in {0, 1} :
                main(token, salt, returncode)

SpecProv == InitProv /\ [][NextProv]_vars

TestKeyRows == {r \in store : r.key_prefix = <<"t", "e", "s", "t", "-", "k", "e", "y">>}

\* C10: every generated key has the prefix "test-key"; after any sequence of
\* successful runs the store holds at most one row with that prefix, its key_hash
\* matches the key of the most recent successful run, and no key stored by an
\* earlier run matches any stored hash.
C10_OneRow_LatestOnly ==
    /\ \A key \in generated : key_prefix_of(key) = <<"t", "e", "s", "t", "-", "k", "e", "y">>
    /\ Cardinality(TestKeyRows) <= 1
    /\ latest # None =>
          /\ Cardinality(TestKeyRows) = 1
          /\ \A r \in TestKeyRows : Matches(latest[1], r.key_hash)
    /\ \A key \in earlier : \A r \in store : ~Matches(key, r.key_hash)

\* C10 witness: three successful runs; the store holds the other key's row and
\* one test-key row.
C10_Witness ==
    /\ Cardinality(earlier) = 2
    /\ latest # None
    /\ Cardinality(store) = 2

(***************************************************************************)
(* JSON.  A response body is a sequence of tokens <<kind, text>>; a JSON    *)
(* value is a record: t the type, a the text of a scalar, k the elements   *)
(* of an array, m the members of an object, as a set of <<key, value>>.    *)
(***************************************************************************)
LBRACE == <<"punct", "{">>
RBRACE == <<"punct", "}">>
LBRACKET == <<"punct", "[">>
RBRACKET == <<"punct", "]">>
COLON == <<"punct", ":">>
COMMA == <<"punct", ",">>
StrTok(s) == <<"str", s>>
NumTok(s) == <<"num", s>>
LitTok(s) == <<"lit", s>>

JLit(s) == [t |-> s, a |-> "", k |-> <<>>, m |-> {}]
JStr(s) == [t |-> "str", a |-> s, k |-> <<>>, m |-> {}]
JNum(s) == [t |-> "num", a |-> s, k |-> <<>>, m |-> {}]
JArr(elems) == [t |-> "arr", a |-> "", k |-> elems, m |-> {}]
JObj(members) == [t |-> "obj", a |-> "", k |-> <<>>, m |-> members]
NoValue == [t |-> "none", a |-> "", k |-> <<>>, m |-> {}]

\* The values the server encodes.
JsonValues ==
    { JLit("null"),
      JArr(<<>>),
      JArr(<<JNum("1"), JObj({<<"id", JStr("j1")>>})>>),
      JObj({<<"status", JStr("ok")>>}),
      JObj({<<"error", JStr("internal")>>}),
      JObj({<<"query_id", JStr("q1")>>, <<"results", JArr(<<JNum("1"), JNum("2")>>)>>}) }

\* The server's encoder: members of an object are written in some order.
RECURSIVE Encode(_), EncodeElems(_), EncodeMembers(_)
Encode(v) ==
    CASE v.t = "str" -> <<StrTok(v.a)>>
      [] v.t = "num" -> <<NumTok(v.a)>>
      [] v.t = "arr" -> <<LBRACKET>> \o EncodeElems(v.k) \o <<RBRACKET>>
      [] v.t = "obj" -> <<LBRACE>> \o EncodeMembers(v.m) \o <<RBRACE>>
      [] OTHER -> <<LitTok(v.t)>>
EncodeElems(elems) ==
    IF elems = <<>> THEN <<>>
    ELSE Encode(Head(elems)) \o
         (IF Len(elems) > 1 THEN <<COMMA>> \o EncodeElems(Tail(elems)) ELSE <<>>)
EncodeMembers(members) ==
    IF members = {} THEN <<>>
    ELSE LET x == CHOOSE y \in members : TRUE
             others == members \ {x}
         IN  <<StrTok(x[1]), COLON>> \o Encode(x[2]) \o
             (IF others # {} THEN <<COMMA>> \o EncodeMembers(others) ELSE <<>>)

ValidJsonBodies == {Encode(v) : v \in JsonValues}

\* Bodies that are not JSON texts: empty, plain text, truncated, a trailing
\* comma, a key that is no string, text after the value.
InvalidBodies ==
    { <<>>,
      <<<<"text", "not json">>>>,
      <<LBRACE, StrTok("status"), COLON>>,
      <<LBRACKET, NumTok("1"), COMMA, RBRACKET>>,
      <<LBRACE, NumTok("1"), COLON, StrTok("ok"), RBRACE>>,
      <<LBRACE, StrTok("status"), COLON, StrTok("ok"), RBRACE, <<"text", "trailer">>>> }

Bodies == ValidJsonBodies \cup InvalidBodies

(***************************************************************************)
(* response.json() (client.py line 35): the decoder, by recursive descent. *)
(***************************************************************************)
PFail == [ok |-> FALSE, val |-> NoValue, rest |-> <<>>]
POk(v, rest) == [ok |-> TRUE, val |-> v, rest |-> rest]

RECURSIVE parse_value(_), parse_elements(_, _), parse_members(_, _)
parse_value(ts) ==
    IF ts = <<>> THEN PFail
    ELSE LET h == Head(ts)
             rest == Tail(ts)
         IN  CASE h[1] = "str" -> POk(JStr(h[2]), rest)
               [] h[1] = "num" -> POk(JNum(h[2]), rest)
               [] h[1] = "lit" -> POk(JLit(h[2]), rest)
               [] h = LBRACKET ->
                    IF rest # <<>> /\ Head(rest) = RBRACKET
                    THEN POk(JArr(<<>>), Tail(rest))
                    ELSE parse_elements(rest, <<>>)
               [] h = LBRACE ->
                    IF rest # <<>> /\ Head(rest) = RBRACE
                    THEN POk(JObj({}), Tail(rest))
                    ELSE parse_members(rest, {})
               [] OTHER -> PFail
parse_elements(ts, acc) ==
    LET r == parse_value(ts)
    IN  IF ~r.ok \/ r.rest = <<>> THEN PFail
        ELSE IF Head(r.rest) = COMMA
             THEN parse_elements(Tail(r.rest), Append(acc, r.val))
        ELSE IF Head(r.rest) = RBRACKET
             THEN POk(JArr(Append(acc, r.val)), Tail(r.rest))
        ELSE PFail
parse_members(ts, acc) ==
    IF Len(ts) < 3 \/ ts[1][1] # "str" \/ ts[2] # COLON THEN PFail
    ELSE LET key == ts[1][2]
             r == parse_value(SubSeq(ts, 3, Len(ts)))
             acc2 == {x \in acc : x[1] # key} \cup {<<key, r.val>>}
         IN  IF ~r.ok \/ r.rest = <<>> THEN PFail
             ELSE IF Head(r.rest) = COMMA
                  THEN parse_members(Tail(r.rest), acc2)
             ELSE IF Head(r.rest) = RBRACE
                  THEN POk(JObj(acc2), Tail(r.rest))
             ELSE PFail

\* json.loads: the whole body must be one JSON text.
json_loads(body) ==
    LET r == parse_value(body)
    IN  IF r.ok /\ r.rest = <<>> THEN r ELSE PFail

(***************************************************************************)
(* The transport: what self.session.request (line 33) can come back with.  *)
(***************************************************************************)
StatusCodes == {200, 299, 302, 400, 404, 500, 599}
TransportOutcomes ==
    {[kind |-> k, status |-> 0, body |-> <<>>] : k \in {"ConnectionError", "Timeout"}}
    \cup {[kind |-> "response", status |-> st, body |-> b] : st \in StatusCodes, b \in Bodies}

\* Response.raise_for_status (line 34): raises HTTPError for 4xx and 5xx.
raise_for_status(status) == 400 <= status /\ status < 600

\* Mutant: line 34 is missing.
respond_without_raise(t) ==
    IF t.kind # "response"
    THEN [attempts |-> 1, outcome |-> "TransportError", err_status |-> 0,
          err_body |-> <<>>, result |-> NoValue]
    ELSE LET r == json_loads(t.body)
         IN  IF r.ok
             THEN [attempts |-> 1, outcome |-> "ok", err_status |-> 0,
                   err_body |-> <<>>, result |-> r.val]
             ELSE [attempts |-> 1, outcome |-> "DecodeError", err_status |-> 0,
                   err_body |-> <<>>, result |-> NoValue]

\* Mutant: every status other than 200 is raised as an error.
respond_only_200(t) ==
    IF t.kind # "response"
    THEN [attempts |-> 1, outcome |-> "TransportError", err_status |-> 0,
          err_body |-> <<>>, result |-> NoValue]
    ELSE IF t.status # 200
    THEN [attempts |-> 1, outcome |-> "HTTPStatusError", err_status |-> t.status,
          err_body |-> t.body, result |-> NoValue]
    ELSE LET r == json_loads(t.body)
         IN  IF r.ok
             THEN [attempts |-> 1, outcome |-> "ok", err_status |-> 0,
                   err_body |-> <<>>, result |-> r.val]
             ELSE [attempts |-> 1, outcome |-> "DecodeError", err_status |-> 0,
                   err_body |-> <<>>, result |-> NoValue]

\* Mutant: a body that does not decode yields an empty mapping.
respond_default_on_decode_error(t) ==
    IF t.kind # "response"
    THEN [attempts |-> 1, outcome |-> "TransportError", err_status |-> 0,
          err_body |-> <<>>, result |-> NoValue]
    ELSE IF raise_for_status(t.status)
    THEN [attempts |-> 1, outcome |-> "HTTPStatusError", err_status |-> t.status,
          err_body |-> t.body, result |-> NoValue]
    ELSE LET r == json_loads(t.body)
         IN  [attempts |-> 1, outcome |-> "ok", err_status |-> 0, err_body |-> <<>>,
              result |-> IF r.ok THEN r.val ELSE JObj({})]

\* Mutant: a request that could not be delivered is sent a second time.
respond_with_retry(t) ==
    IF t.kind # "response"
    THEN [attempts |-> 2, outcome |-> "TransportError", err_status |-> 0,
          err_body |-> <<>>, result |-> NoValue]
    ELSE IF raise_for_status(t.status)
    THEN [attempts |-> 1, outcome |-> "HTTPStatusError", err_status |-> t.status,
          err_body |-> t.body, result |-> NoValue]
    ELSE LET r == json_loads(t.body)
         IN  IF r.ok
             THEN [attempts |-> 1, outcome |-> "ok", err_status |-> 0,
                   err_body |-> <<>>, result |-> r.val]
             ELSE [attempts |-> 1, outcome |-> "DecodeError", err_status |-> 0,
                   err_body |-> <<>>, result |-> NoValue]

\* _request lines 33-35, given what the transport came back with: one call of
\* session.request; its exception (requests ConnectionError, Timeout) propagates;
\* raise_for_status raises HTTPError holding the response; response.json() raises
\* JSONDecodeError or gives the value that _request returns.
respond(t) ==
    IF t.kind # "response"
    THEN [attempts |-> 1, outcome |-> "TransportError", err_status |-> 0,
          err_body |-> <<>>, result |-> NoValue]
    ELSE IF raise_for_status(t.status)
    THEN [attempts |-> 1, outcome |-> "HTTPStatusError", err_status |-> t.status,
          err_body |-> t.body, result |-> NoValue]
    ELSE LET r == json_loads(t.body)
         IN  IF r.ok
             THEN [attempts |-> 1, outcome |-> "ok", err_status |-> 0,
                   err_body |-> <<>>, result |-> r.val]
             ELSE [attempts |-> 1, outcome |-> "DecodeError", err_status |-> 0,
                   err_body |-> <<>>, result |-> NoValue]

(***************************************************************************)
(* Spec: one NeuronIPClient and its methods.                               *)
(***************************************************************************)
ClientBaseUrls == {<<"http:", "/", "/", "host">>, <<"http:", "/", "/", "host", "/", "/">>}
ApiKeys == {None, Some(""), Some("k1")}
Queries == {"Show me total sales by region"}
OptionalIds == {None, Some(""), Some("id1")}
SearchLimits == {None, Some(5)}
ListLimits == {None, Some(10)}
AuditLimits == {None, Some(20)}
Filters == {None, Some(EmptyDict), Some([user |-> "u1"]), Some([limit |-> 5]),
            Some([user |-> "u1", limit |-> 5])}
MetricIds == {<<"m1">>, <<"m2">>}
Metrics == {[name |-> "revenue"]}
Methods == {"GET", "POST", "PUT", "PATCH", "DELETE"}
DirectKwargs == {[params |-> None, json |-> None],
                 [params |-> Some([limit |-> 5]), json |-> Some([name |-> "revenue"])]}

DefaultSearchLimit == 10
DefaultListLimit == 100
DefaultAuditLimit == 100

\* A parameter with a default: the default when the caller omits the argument.
OrDefault(arg, default) == IF arg = None THEN default ELSE arg[1]

NoArgs == [query |-> "", limit |-> None, schema_id |-> None, data_source_id |-> None,
           filters |-> None]

NoCall ==
    [op |-> "none", args |-> NoArgs, method |-> "", url |-> <<>>, headers |-> EmptyDict,
     params |-> None, json |-> None, kind |-> "", status |-> 0, body |-> <<>>,
     attempts |-> 0, outcome |-> "", err_status |-> 0, err_body |-> <<>>,
     result |-> NoValue]

Init ==
    /\ \E b \in ClientBaseUrls, k \in ApiKeys :
          /\ given = [base_url |-> b, api_key |-> k]
          /\ client = init(b, k)
    /\ last = NoCall
    /\ calls = 0
    /\ twin = <<>>
    /\ ctor = <<>>
    /\ sent = <<>>
    /\ store = {}
    /\ generated = {}
    /\ earlier = {}
    /\ latest = None
    /\ runs = 0

\* Mutant: the request's URL is kept as the client's base_url.
self_keeps_url(self, url) == [self EXCEPT !.base_url = url]

\* The client object after _request (lines 30-35): no attribute is assigned.
self_after_request(self, url) == self

\* _request (lines 30-33), up to the call of session.request: the target URL is
\* built and the request handed to the session with the session's headers.  params
\* and json are the keyword arguments; op and args record the method called and
\* its arguments.  The call blocks until session_request_returns.
_request(op, args, method, endpoint, params, json) ==
    /\ last.outcome # "pending"
    /\ calls < MaxCalls
    /\ last' = [NoCall EXCEPT !.op = op, !.args = args, !.method = method,
                              !.url = TargetUrl(client.base_url, endpoint),
                              !.headers = client.headers, !.params = params,
                              !.json = json, !.outcome = "pending"]
    /\ calls' = calls + 1
    /\ UNCHANGED <<given, client, urlVars, provVars>>

\* _request (lines 33-35), from the return of session.request: the call ends by
\* raising or by returning the decoded body.
session_request_returns(t) ==
    /\ last.outcome = "pending"
    /\ LET out == respond(t)
       IN  last' = [last EXCEPT !.kind = t.kind, !.status = t.status, !.body = t.body,
                                !.attempts = out.attempts, !.outcome = out.outcome,
                                !.err_status = out.err_status,
                                !.err_body = out.err_body, !.result = out.result]
    /\ client' = self_after_request(client, last.url)
    /\ UNCHANGED <<given, calls, urlVars, provVars>>

\* A direct use of the dispatch operation with optional query and body.
request(method, endpoint, params, json) ==
    _request("request", NoArgs, method, endpoint, params, json)

\* health_check (lines 37-39).
health_check ==
    _request("health_check", NoArgs, "GET", <<"/", "health">>, None, None)

\* semantic_search (lines 41-46).
semantic_search(query, limit) ==
    _request("semantic_search", [NoArgs EXCEPT !.query = query, !.limit = limit],
             "POST", <<"/", "semantic", "/", "search">>, None,
             Some([query |-> query, limit |-> OrDefault(limit, DefaultSearchLimit)]))

\* Mutant: schema_id is always put in the payload.
warehouse_payload_always(query, schema_id) ==
    [query |-> query, schema_id |-> OrDefault(schema_id, "")]

\* warehouse_query lines 50-52: the payload.
warehouse_payload(query, schema_id) ==
    IF TruthyStr(schema_id)
    THEN update([query |-> query], [schema_id |-> schema_id[1]])
    ELSE [query |-> query]

\* warehouse_query (lines 48-53).
warehouse_query(query, schema_id) ==
    _request("warehouse_query", [NoArgs EXCEPT !.query = query, !.schema_id = schema_id],
             "POST", <<"/", "warehouse", "/", "query">>, None,
             Some(warehouse_payload(query, schema_id)))

\* create_ingestion_job (lines 55-61).
create_ingestion_job(data_source_id, job_type, config) ==
    _request("create_ingestion_job", [NoArgs EXCEPT !.data_source_id = Some(data_source_id)],
             "POST", <<"/", "ingestion", "/", "jobs">>, None,
             Some([data_source_id |-> data_source_id, job_type |-> job_type,
                   config |-> config]))

\* list_ingestion_jobs lines 65-67: the query parameters.
list_params(data_source_id, limit) ==
    IF TruthyStr(data_source_id)
    THEN update([limit |-> OrDefault(limit, DefaultListLimit)],
                [data_source_id |-> data_source_id[1]])
    ELSE [limit |-> OrDefault(limit, DefaultListLimit)]

\* list_ingestion_jobs (lines 63-68).
list_ingestion_jobs(data_source_id, limit) ==
    _request("list_ingestion_jobs",
             [NoArgs EXCEPT !.data_source_id = data_source_id, !.limit = limit],
             "GET", <<"/", "ingestion", "/", "jobs">>,
             Some(list_params(data_source_id, limit)), None)

\* get_metric (lines 70-72).
get_metric(metric_id) ==
    _request("get_metric", NoArgs, "GET", <<"/", "metrics", "/">> \o metric_id, None, None)

\* create_metric (lines 74-76).
create_metric(metric) ==
    _request("create_metric", NoArgs, "POST", <<"/", "metrics">>, None, Some(metric))

\* Mutant: the limit argument is written over the merged filters.
audit_params_limit_last(filters, limit) ==
    IF TruthyDict(filters)
    THEN update(filters[1], [limit |-> OrDefault(limit, DefaultAuditLimit)])
    ELSE [limit |-> OrDefault(limit, DefaultAuditLimit)]

\* get_audit_logs lines 80-82: the query parameters.
audit_params(filters, limit) ==
    IF TruthyDict(filters)
    THEN update([limit |-> OrDefault(limit, DefaultAuditLimit)], filters[1])
    ELSE [limit |-> OrDefault(limit, DefaultAuditLimit)]

\* get_audit_logs (lines 78-83).
get_audit_logs(filters, limit) ==
    _request("get_audit_logs", [NoArgs EXCEPT !.filters = filters, !.limit = limit],
             "GET", <<"/", "audit", "/", "events">>,
             Some(audit_params(filters, limit)), None)

Next ==
    \/ \E method \in Methods, kw \in DirectKwargs :
          request(method, <<"/", "metrics">>, kw.params, kw.json)
    \/ health_check
    \/ \E query \in Queries, limit \in SearchLimits : semantic_search(query, limit)
    \/ \E query \in Queries, schema_id \in OptionalIds : warehouse_query(query, schema_id)
    \/ create_ingestion_job("id1", "sync", [mode |-> "full"])
    \/ \E data_source_id \in OptionalIds, limit \in ListLimits :
          list_ingestion_jobs(data_source_id, limit)
    \/ \E metric_id \in MetricIds : get_metric(metric_id)
    \/ \E metric \in Metrics : create_metric(metric)
    \/ \E filters \in Filters, limit \in AuditLimits : get_audit_logs(filters, limit)
    \/ \E t \in TransportOutcomes : session_request_returns(t)

Spec == Init /\ [][Next]_vars

(***************************************************************************)
(* Properties of Spec.                                                     *)
(***************************************************************************)
Requested == last.op # "none"
Completed == last.op # "none" /\ last.outcome # "pending"
Responded == Completed /\ last.kind = "response"
SuccessStatus == 200 <= last.status /\ last.status <= 299

AuthorizationHeaders(headers) == {h \in DOMAIN headers : h = "Authorization"}

\* C2 (as stated): every outbound request of a client constructed with a
\* credential c carries exactly one Authorization header, 'Bearer c'; every
\* request of a client constructed with no credential carries none.
C2_AnyCredential_Bearer ==
    Requested =>
        IF given.api_key # None
        THEN /\ Cardinality(AuthorizationHeaders(last.headers)) = 1
             /\ last.headers["Authorization"] = "Bearer " \o given.api_key[1]
        ELSE AuthorizationHeaders(last.headers) = {}

\* C2 (amended): every outbound request of a client constructed with a non-empty
\* credential c carries exactly one Authorization header, 'Bearer c'; every
\* request of a client constructed with no credential, or with the empty string
\* as credential, carries none.
C2_NonEmptyCredential_Bearer ==
    Requested =>
        IF given.api_key # None /\ given.api_key[1] # ""
        THEN /\ Cardinality(AuthorizationHeaders(last.headers)) = 1
             /\ last.headers["Authorization"] = "Bearer " \o given.api_key[1]
        ELSE AuthorizationHeaders(last.headers) = {}

\* C2 witness: the second call of a client built with credential "k1" is out,
\* carrying 'Bearer k1'.
C2_Witness ==
    /\ calls = 2
    /\ given.api_key = Some("k1")
    /\ last.op = "warehouse_query"
    /\ last.outcome = "pending"
    /\ last.headers["Authorization"] = "Bearer k1"

\* C3: a response with status >= 400 makes the call fail with HTTPStatusError
\* carrying that status and body; nothing is returned and exactly one transport
\* request was issued.
C3_ErrorStatus_Raises ==
    (Responded /\ last.status >= 400) =>
        /\ last.outcome = "HTTPStatusError"
        /\ last.err_status = last.status
        /\ last.err_body = last.body
        /\ last.result = NoValue
        /\ last.attempts = 1

\* C3 witness: status 500 with body {"error":"internal"}.
C3_Witness ==
    /\ Responded
    /\ last.status = 500
    /\ last.body = <<LBRACE, StrTok("error"), COLON, StrTok("internal"), RBRACE>>
    /\ last.outcome = "HTTPStatusError"

\* C4: a response with a status in [200,299] and a JSON body makes the call
\* return the decoded value, equal to the value the server encoded.
C4_Success_ReturnsDecoded ==
    (Responded /\ SuccessStatus /\ last.body \in ValidJsonBodies) =>
        /\ last.outcome = "ok"
        /\ last.result # NoValue
        /\ \A v \in JsonValues : last.body = Encode(v) => last.result = v

\* C4 witness: health_check answered 299 with a nested body returns the value.
C4_Witness ==
    /\ Responded
    /\ last.op = "health_check"
    /\ last.status = 299
    /\ last.outcome = "ok"
    /\ last.result = JObj({<<"query_id", JStr("q1")>>,
                           <<"results", JArr(<<JNum("1"), JNum("2")>>)>>})

\* C5: a response with a success status and a body that is not JSON makes the
\* call fail with DecodeError; no value is returned.
C5_BadBody_DecodeError ==
    (Responded /\ SuccessStatus /\ last.body \notin ValidJsonBodies) =>
        /\ last.outcome = "DecodeError"
        /\ last.result = NoValue

\* C5 witness: status 200 with the body "not json".
C5_Witness ==
    /\ Responded
    /\ last.status = 200
    /\ last.body = <<<<"text", "not json">>>>
    /\ last.outcome = "DecodeError"

\* C6: a request that cannot be delivered (connection failure, timeout) makes
\* the call fail with TransportError after exactly one transport attempt, for a
\* direct request and for every resource method; nothing is returned.
C6_Undelivered_TransportError ==
    (Completed /\ last.kind \in {"ConnectionError", "Timeout"}) =>
        /\ last.outcome = "TransportError"
        /\ last.attempts = 1
        /\ last.result = NoValue

\* C6 witness: get_audit_logs ended by a timeout.
C6_Witness ==
    /\ Completed
    /\ last.op = "get_audit_logs"
    /\ last.kind = "Timeout"
    /\ last.outcome = "TransportError"

\* C7 (as stated): the optional field's key is sent if and only if the caller
\* provided a value for it, with that value; otherwise warehouse_query sends
\* exactly {query} and list_ingestion_jobs exactly {limit}.
C7_Provided_Iff_Sent ==
    /\ last.op = "warehouse_query" =>
          /\ ("schema_id" \in DOMAIN last.json[1]) <=> (last.args.schema_id # None)
          /\ last.args.schema_id # None => last.json[1].schema_id = last.args.schema_id[1]
          /\ last.json[1].query = last.args.query
          /\ DOMAIN last.json[1] \subseteq {"query", "schema_id"}
    /\ last.op = "list_ingestion_jobs" =>
          /\ ("data_source_id" \in DOMAIN last.params[1]) <=> (last.args.data_source_id # None)
          /\ last.args.data_source_id # None =>
                last.params[1].data_source_id = last.args.data_source_id[1]
          /\ last.params[1].limit = OrDefault(last.args.limit, DefaultListLimit)
          /\ DOMAIN last.params[1] \subseteq {"limit", "data_source_id"}

\* C7 (amended): the optional field's key is sent if and only if the caller
\* provided a non-empty value for it, with that value; when it is omitted or the
\* empty string, warehouse_query sends exactly {query} and list_ingestion_jobs
\* exactly {limit}.
C7_NonEmpty_Iff_Sent ==
    /\ last.op = "warehouse_query" =>
          /\ ("schema_id" \in DOMAIN last.json[1]) <=>
                (last.args.schema_id # None /\ last.args.schema_id[1] # "")
          /\ "schema_id" \in DOMAIN last.json[1] =>
                last.json[1].schema_id = last.args.schema_id[1]
          /\ last.json[1].query = last.args.query
          /\ DOMAIN last.json[1] \subseteq {"query", "schema_id"}
          /\ last.params = None
    /\ last.op = "list_ingestion_jobs" =>
          /\ ("data_source_id" \in DOMAIN last.params[1]) <=>
                (last.args.data_source_id # None /\ last.args.data_source_id[1] # "")
          /\ "data_source_id" \in DOMAIN last.params[1] =>
                last.params[1].data_source_id = last.args.data_source_id[1]
          /\ last.params[1].limit = OrDefault(last.args.limit, DefaultListLimit)
          /\ DOMAIN last.params[1] \subseteq {"limit", "data_source_id"}
          /\ last.json = None

\* C7 witness: list_ingestion_jobs(limit=10) has sent exactly {limit: 10}.
C7_Witness ==
    /\ last.op = "list_ingestion_jobs"
    /\ last.args.data_source_id = None
    /\ last.args.limit = Some(10)
    /\ last.params = Some([limit |-> 10])

\* C8: after any sequence of calls, whatever their outcomes, base_url, api_key
\* and the session's headers are what the constructor made of its arguments,
\* and every request carried those headers.
C8_Config_Unchanged ==
    /\ client = init(given.base_url, given.api_key)
    /\ Requested => last.headers = init(given.base_url, given.api_key).headers

\* C8 witness: the second call of a client has ended with HTTPStatusError.
C8_Witness ==
    /\ calls = 2
    /\ Completed
    /\ last.op = "get_audit_logs"
    /\ last.outcome = "HTTPStatusError"

\* C9: get_audit_logs sends {limit: limit} overridden by filters: every key of
\* filters is sent with the filters value, a 'limit' in filters replaces the
\* limit argument or the default 100, and without filters the query is exactly
\* {limit: limit}.
C9_Filters_Override_Limit ==
    last.op = "get_audit_logs" =>
        LET sentParams == last.params[1]
            limit == OrDefault(last.args.limit, DefaultAuditLimit)
            filters == IF last.args.filters = None THEN EmptyDict ELSE last.args.filters[1]
        IN  /\ last.params # None
            /\ DOMAIN sentParams = {"limit"} \cup DOMAIN filters
            /\ \A k \in DOMAIN filters : sentParams[k] = filters[k]
            /\ "limit" \notin DOMAIN filters => sentParams.limit = limit
            /\ last.args.filters = None => sentParams = [limit |-> limit]

\* C9 witness: get_audit_logs({user: u1, limit: 5}, limit=20) has sent limit 5.
C9_Witness ==
    /\ last.op = "get_audit_logs"
    /\ last.args.filters = Some([user |-> "u1", limit |-> 5])
    /\ last.args.limit = Some(20)
    /\ last.params = Some([user |-> "u1", limit |-> 5])
=============================================================================
